---- MODULE Spec2Model ----
(***************************************************************************)
(* A model of the IBC core of this repository:                             *)
(*   - the Tendermint light client's misbehaviour check                    *)
(*     (CheckMisbehaviourAndUpdateState / checkMisbehaviour),              *)
(*   - the connection handshake handlers of 03-connection/handler.go.      *)
(***************************************************************************)
EXTENDS Integers, Sequences, FiniteSets, TLC

(***************************************************************************)
(* Bounds of the model.                                                    *)
(***************************************************************************)
\* Heights of evidence and of loaded consensus states range over small values.
MaxHeight == 3
\* Wall-clock instants 0..MaxTime.
MaxTime == 3
\* uint64 arithmetic is kept modulo a scaled-down 2^64: uint64(h) = h % Modulus.
Modulus == 16

(***************************************************************************)
(* Light client: data                                                      *)
(***************************************************************************)
\* The validators of the trusted validator set.
Validators == {"v1", "v2"}

\* Their voting power: 1 for v1, 2 for v2 (3 in total).
VotingPower(v) == IF v = "v1" THEN 1 ELSE 2

\* clientState.UnbondingPeriod of the tracked client (a duration).
UnbondingPeriod == 2

\* clientState.TrustLevel, a fraction (the Tendermint default, 1/3).
TrustLevel == [Numerator |-> 1, Denominator |-> 3]

\* A Tendermint client state; FrozenHeight = 0 means "not frozen".
TmClientState(frozen) ==
    [kind |-> "tendermint", FrozenHeight |-> frozen,
     UnbondingPeriod |-> UnbondingPeriod, TrustLevel |-> TrustLevel]

\* A client state of another concrete type behind the same interface.
OtherClientState == [kind |-> "solomachine"]

\* Consensus states a caller can pass: Tendermint ones carry a timestamp and a
\* validator set in wire form (which decodes or not); others carry neither.
ConsensusStates ==
    [kind : {"tendermint"}, Timestamp : 0 .. 1, ValidatorSetDecodes : BOOLEAN]
      \cup {[kind |-> "solomachine"]}

\* A signed header in wire form: it decodes or not; a decodable one carries a
\* commit signed by some of the trusted validators.
SignedHeaders ==
    [decodes : {TRUE}, signers : SUBSET Validators]
      \cup {[decodes |-> FALSE, signers |-> {}]}

\* Misbehaviour a caller can pass. GetHeight() is an int64, so it may be negative.
Misbehaviours ==
    [kind : {"tendermint"}, Height : -1 .. MaxHeight,
     Header1 : SignedHeaders, Header2 : SignedHeaders]
      \cup [kind : {"solomachine"}, Height : -1 .. MaxHeight]

(***************************************************************************)
(* Errors. An sdk error has a registered kind and a description.           *)
(***************************************************************************)
NoError == [kind |-> "nil", msg |-> <<>>]

\* sdkerrors.Wrap(kind, description): an error of the registered kind `kind`
\* whose text is the description followed by the kind's own text.
Wrap(kind, description) == [kind |-> kind, msg |-> description]

\* err.Error(): the text of an error, description first, then the text of the
\* registered kind. It is a string: the kind (codespace and code) is not in it.
ErrorText(err) == err.msg \o <<err.kind>>

\* A nil clientexported.ClientState.
NilClientState == [kind |-> "nil"]

(***************************************************************************)
(* Light client: operations                                                *)
(***************************************************************************)
\* uint64(x) of an int64 x.
Uint64(x) == x % Modulus

\* misbehaviour.GetHeight(), an int64.
GetHeight(misbehaviour) == misbehaviour.Height

\* ClientState.IsFrozen: a frozen height of 0 means not frozen.
IsFrozen(cs) == cs.FrozenHeight # 0

RECURSIVE SumPower(_)
SumPower(S) ==
    IF S = {} THEN 0
    ELSE LET v == CHOOSE x \in S : TRUE IN VotingPower(v) + SumPower(S \ {v})

\* valset.VerifyCommitTrusting(chainID, blockID, height, commit, trustLevel):
\* the power of the trusted validators that signed the commit must exceed
\* trustLevel * total trusted power.
VerifyCommitTrusting(valset, signers, trustLevel) ==
    LET needed == (SumPower(valset) * trustLevel.Numerator) \div trustLevel.Denominator
    IN  SumPower(signers \cap valset) > needed

\* checkMisbehaviour that verifies the commit of header 1 only.
checkMisbehaviourOneCommit(cs, cons, ev, height, now) ==
    IF height > Uint64(GetHeight(ev))
      THEN Wrap("InvalidHeight", <<"height > evidence header height">>)
    ELSE IF now - cons.Timestamp >= cs.UnbondingPeriod
      THEN Wrap("UnbondingPeriodExpired", <<"timestamp is too old">>)
    ELSE IF ~cons.ValidatorSetDecodes
      THEN Wrap("InvalidEvidence", <<"validator set">>)
    ELSE IF ~ev.Header1.decodes
      THEN Wrap("InvalidEvidence", <<"invalid signed header 1">>)
    ELSE IF ~ev.Header2.decodes
      THEN Wrap("InvalidEvidence", <<"invalid signed header 2">>)
    ELSE IF ~VerifyCommitTrusting(Validators, ev.Header1.signers, cs.TrustLevel)
      THEN Wrap("InvalidEvidence", <<"header 1 has too much change">>)
    ELSE NoError

\* checkMisbehaviour: is the evidence a valid light client misbehaviour?
\* Returns the error, NoError for nil.
checkMisbehaviour(cs, cons, ev, height, now) ==
    IF height > Uint64(GetHeight(ev))
      THEN Wrap("InvalidHeight", <<"height > evidence header height">>)
    ELSE IF now - cons.Timestamp >= cs.UnbondingPeriod
      THEN Wrap("UnbondingPeriodExpired", <<"timestamp is too old">>)
    ELSE IF ~cons.ValidatorSetDecodes
      THEN Wrap("InvalidEvidence", <<"validator set">>)
    ELSE IF ~ev.Header1.decodes
      THEN Wrap("InvalidEvidence", <<"invalid signed header 1">>)
    ELSE IF ~ev.Header2.decodes
      THEN Wrap("InvalidEvidence", <<"invalid signed header 2">>)
    ELSE IF ~VerifyCommitTrusting(Validators, ev.Header1.signers, cs.TrustLevel)
      THEN Wrap("InvalidEvidence", <<"header 1 has too much change">>)
    ELSE IF ~VerifyCommitTrusting(Validators, ev.Header2.signers, cs.TrustLevel)
      THEN Wrap("InvalidEvidence", <<"header 2 has too much change">>)
    ELSE NoError

\* The frozen guard with < where the code has <=.
AlreadyFrozenStrict(cs, misbehaviour) ==
    IsFrozen(cs) /\ cs.FrozenHeight < Uint64(GetHeight(misbehaviour))

\* "If client is already frozen at earlier height than evidence, return with error"
AlreadyFrozen(cs, misbehaviour) ==
    IsFrozen(cs) /\ cs.FrozenHeight <= Uint64(GetHeight(misbehaviour))

\* A freeze that leaves an already frozen client at its old height.
FreezeOnce(cs, ev) ==
    IF IsFrozen(cs) THEN cs
    ELSE [cs EXCEPT !.FrozenHeight = Uint64(GetHeight(ev))]

\* tmClientState.FrozenHeight = uint64(tmEvidence.GetHeight())
Freeze(cs, ev) == [cs EXCEPT !.FrozenHeight = Uint64(GetHeight(ev))]

\* The two values a call returns: the client state (nil on failure), the error.
Failure(err) == [state |-> NilClientState, err |-> err]

Success(cs) == [state |-> cs, err |-> NoError]

\* A version that freezes its copy of the client state before the evidence
\* is checked and hands that copy back together with the error.
CheckMisbehaviourFreezeFirst(clientState, consensusState, misbehaviour, height, currentTimestamp) ==
    IF clientState.kind # "tendermint"
      THEN Failure(Wrap("InvalidClientType", <<"client state type is not Tendermint">>))
    ELSE IF AlreadyFrozen(clientState, misbehaviour)
      THEN Failure(Wrap("InvalidEvidence", <<"client is already frozen at earlier height">>))
    ELSE IF consensusState.kind # "tendermint"
      THEN Failure(Wrap("InvalidClientType", <<"consensus state is not Tendermint">>))
    ELSE IF misbehaviour.kind # "tendermint"
      THEN Failure(Wrap("InvalidClientType", <<"evidence type is not Tendermint">>))
    ELSE LET err == checkMisbehaviour(clientState, consensusState, misbehaviour,
                                      height, currentTimestamp)
         IN  IF err.kind # "nil"
               THEN [state |-> Freeze(clientState, misbehaviour),
                     err |-> Wrap("InvalidEvidence", ErrorText(err))]
               ELSE Success(Freeze(clientState, misbehaviour))

\* CheckMisbehaviourAndUpdateState determines whether or not two conflicting
\* headers at the same height would have convinced the light client.
CheckMisbehaviourAndUpdateState(clientState, consensusState, misbehaviour, height, currentTimestamp) ==
    IF clientState.kind # "tendermint"
      THEN Failure(Wrap("InvalidClientType", <<"client state type is not Tendermint">>))
    ELSE IF AlreadyFrozen(clientState, misbehaviour)
      THEN Failure(Wrap("InvalidEvidence", <<"client is already frozen at earlier height">>))
    ELSE IF consensusState.kind # "tendermint"
      THEN Failure(Wrap("InvalidClientType", <<"consensus state is not Tendermint">>))
    ELSE IF misbehaviour.kind # "tendermint"
      THEN Failure(Wrap("InvalidClientType", <<"evidence type is not Tendermint">>))
    ELSE LET err == checkMisbehaviour(clientState, consensusState, misbehaviour,
                                      height, currentTimestamp)
         IN  IF err.kind # "nil"
               THEN Failure(Wrap("InvalidEvidence", ErrorText(err)))
               ELSE Success(Freeze(clientState, misbehaviour))

(***************************************************************************)
(* State                                                                   *)
(***************************************************************************)
VARIABLES
    clientState,   \* the Tendermint client state the caller holds in its store
    mpc,           \* "idle", or "returned" while a call's results are in hand
    call,          \* the arguments of the call that returned
    ret,           \* what that call returned: [state, err]
    conns,         \* conns[chain][id]: the connection record stored under id
    committed,     \* committed[chain]: the entries chain has committed so far
    hpc,           \* "idle", or "handled" while a handler's result is in hand
    hout,          \* the message a handler was given and what it returned
    smap,          \* the Merkle map under construction: [type, kvs, sorted]
    mlog,          \* the (key, value) arguments of the set calls on it, in order
    mret,          \* the last call on the map and what it returned
    scall,         \* the last call on a proof, its arguments and its result
    twin           \* a merkleMap and a simpleMap given the same calls, and the
                   \* last call with what each returned

mvars == <<clientState, mpc, call, ret>>

hvars == <<conns, committed, hpc, hout>>

kvars == <<smap, mlog, mret>>

svars == <<scall>>

tvars == <<twin>>

vars == <<clientState, mpc, call, ret, conns, committed, hpc, hout,
          smap, mlog, mret, scall, twin>>

(***************************************************************************)
(* Connection handshake: data                                              *)
(***************************************************************************)
Chains == {"A", "B"}

Other(chain) == IF chain = "A" THEN "B" ELSE "A"

\* The connection identifiers a chain stores records under: the two ends of a
\* connection go by different identifiers.
ConnIDs(chain) == IF chain = "A" THEN {"c1"} ELSE {"c2"}

\* The identifier under which `chain` keeps its light client of the other chain.
ClientOn(chain) == IF chain = "A" THEN "clientB" ELSE "clientA"

\* The connection versions every chain supports.
SupportedVersions == {1, 2}

\* The order UNINITIALIZED < INIT < TRYOPEN < OPEN of connection states.
Rank(state) ==
    CASE state = "UNINITIALIZED" -> 0
      [] state = "INIT" -> 1
      [] state = "TRYOPEN" -> 2
      [] state = "OPEN" -> 3

\* A connection record.
ConnectionEnd(state, clientID, counterparty, versions) ==
    [state |-> state, clientID |-> clientID,
     counterparty |-> counterparty, versions |-> versions]

\* msg.Counterparty: the counterparty's connection and client identifiers.
Counterparty(connectionID, clientID) ==
    [connectionID |-> connectionID, clientID |-> clientID]

\* What a store holds under an identifier no message has used yet.
Uninitialized ==
    ConnectionEnd("UNINITIALIZED", "", Counterparty("", ""), {})

\* A committed entry: a value under a path of a chain's store.
ConnectionEntry(connectionID, connection) ==
    [path |-> <<"connections", connectionID>>, value |-> connection]

\* The consensus state of `chain` that its counterparty keeps under clientID.
ConsensusEntry(clientID, chain) ==
    [path |-> <<"clients", clientID, "consensusState">>,
     value |-> [chain |-> chain]]

(***************************************************************************)
(* Commitment proofs                                                       *)
(***************************************************************************)
\* A byte slice: nil, or the bytes it holds (none, for an empty slice).
NilSlice == [isNil |-> TRUE, bytes |-> <<>>]

Slice(bz) == [isNil |-> FALSE, bytes |-> bz]

\* len(slice): the length of a nil slice is 0.
len(slice) == Len(slice.bytes)

\* A signature proof wraps one signature byte string.
SignatureProof(signature) == [variant |-> "signature", Signature |-> signature]

\* A Merkle proof shows one entry under a root.
MerkleProof(entry) == [variant |-> "merkle", entry |-> entry]

\* The cached value of an envelope that holds no proof.
NotAProof == [variant |-> "none"]

\* A protobuf Any envelope with its cached value.
Envelope(value) == [cached |-> value]

\* any.GetCachedValue()
GetCachedValue(any) == any.cached

\* value.(commitmentexported.Proof) succeeds: the value is a Proof.
IsProof(value) == value.variant \in {"signature", "merkle"}

ErrInvalidProof == Wrap("InvalidProof", <<"invalid proof">>)

\* An IsEmpty that holds of the absent signature only.
IsEmptyNilOnly(proof) == proof.Signature.isNil

\* SignatureProof.IsEmpty: the signature has length 0.
IsEmpty(proof) == len(proof.Signature) = 0

\* SignatureProof.ValidateBasic: an empty proof is invalid.
ValidateBasic(proof) == IF IsEmpty(proof) THEN ErrInvalidProof ELSE NoError

\* A VerifyMembership that refuses a proof ValidateBasic refuses.
SignatureVerifyMembershipValidates(proof, root, path, value) == ValidateBasic(proof)

\* SignatureProof.VerifyMembership: returns nil.
SignatureVerifyMembership(proof, root, path, value) == NoError

\* SignatureProof.VerifyNonMembership: returns nil.
SignatureVerifyNonMembership(proof, root, path) == NoError

\* MerkleProof.VerifyMembership: the proof reconciles the value under the path
\* to the root.
MerkleVerifyMembership(proof, root, path, value) ==
    IF proof.entry = [path |-> path, value |-> value] /\ proof.entry \in root
      THEN NoError
      ELSE Wrap("InvalidProof", <<"proof does not verify">>)

\* proof.VerifyMembership(root, path, value), dispatched on the proof's variant.
VerifyMembership(proof, root, path, value) ==
    IF proof.variant = "signature"
      THEN SignatureVerifyMembership(proof, root, path, value)
      ELSE MerkleVerifyMembership(proof, root, path, value)

(***************************************************************************)
(* Connection keeper                                                       *)
(***************************************************************************)
\* The keeper's return: the error and the record the store holds afterwards.
KeeperFailure(err, previous) == [err |-> err, conn |-> previous]

KeeperSuccess(connection) == [err |-> NoError, conn |-> connection]

\* The version a chain picks among the candidates: the highest.
PickVersion(versions) == CHOOSE v \in versions : \A w \in versions : w <= v

\* Membership of the expected counterparty record under the trusted root.
VerifyConnectionState(proof, root, connectionID, expected) ==
    VerifyMembership(proof, root, <<"connections", connectionID>>, expected)

\* Membership of this chain's consensus state in the counterparty's client.
VerifyClientConsensusState(proof, root, clientID, self) ==
    VerifyMembership(proof, root, ConsensusEntry(clientID, self).path,
                     ConsensusEntry(clientID, self).value)

\* ConnOpenInit: creates the connection in INIT.
ConnOpenInit(store, connectionID, clientID, counterparty) ==
    LET previous == store[connectionID] IN
    IF previous.state # "UNINITIALIZED"
      THEN KeeperFailure(Wrap("InvalidConnectionState", <<"connection already exists">>),
                         previous)
      ELSE KeeperSuccess(ConnectionEnd("INIT", clientID, counterparty, SupportedVersions))

\* ConnOpenTry that accepts a connection in any prior state.
ConnOpenTryAnyPrior(self, store, root, connectionID, counterparty, clientID, counterpartyVersions, proofInit, proofConsensus) ==
    LET previous == store[connectionID]
        expected == ConnectionEnd("INIT", counterparty.clientID,
                                  Counterparty(connectionID, clientID),
                                  counterpartyVersions)
        errInit == VerifyConnectionState(proofInit, root, counterparty.connectionID, expected)
        errCons == VerifyClientConsensusState(proofConsensus, root, counterparty.clientID, self)
    IN  IF errInit.kind # "nil" THEN KeeperFailure(errInit, previous)
        ELSE IF errCons.kind # "nil" THEN KeeperFailure(errCons, previous)
        ELSE KeeperSuccess(ConnectionEnd("TRYOPEN", clientID, counterparty,
                              {PickVersion(counterpartyVersions \cap SupportedVersions)}))

\* ConnOpenTry: verifies the counterparty's INIT record and this chain's
\* consensus state there, then creates or updates the connection to TRYOPEN.
ConnOpenTry(self, store, root, connectionID, counterparty, clientID, counterpartyVersions, proofInit, proofConsensus) ==
    LET previous == store[connectionID]
        expected == ConnectionEnd("INIT", counterparty.clientID,
                                  Counterparty(connectionID, clientID),
                                  counterpartyVersions)
        errInit == VerifyConnectionState(proofInit, root, counterparty.connectionID, expected)
        errCons == VerifyClientConsensusState(proofConsensus, root, counterparty.clientID, self)
    IN  IF previous.state \notin {"UNINITIALIZED", "INIT"}
          THEN KeeperFailure(Wrap("InvalidConnectionState", <<"connection is past INIT">>),
                             previous)
        ELSE IF errInit.kind # "nil" THEN KeeperFailure(errInit, previous)
        ELSE IF errCons.kind # "nil" THEN KeeperFailure(errCons, previous)
        ELSE KeeperSuccess(ConnectionEnd("TRYOPEN", clientID, counterparty,
                              {PickVersion(counterpartyVersions \cap SupportedVersions)}))

\* ConnOpenAck that does not look at the prior state of the connection.
ConnOpenAckAnyPrior(self, store, root, connectionID, version, proofTry, proofConsensus) ==
    LET previous == store[connectionID]
        expected == ConnectionEnd("TRYOPEN", previous.counterparty.clientID,
                                  Counterparty(connectionID, previous.clientID),
                                  {version})
        errTry == VerifyConnectionState(proofTry, root,
                                        previous.counterparty.connectionID, expected)
        errCons == VerifyClientConsensusState(proofConsensus, root,
                                              previous.counterparty.clientID, self)
    IN  IF errTry.kind # "nil" THEN KeeperFailure(errTry, previous)
        ELSE IF errCons.kind # "nil" THEN KeeperFailure(errCons, previous)
        ELSE KeeperSuccess([previous EXCEPT !.state = "OPEN", !.versions = {version}])

\* ConnOpenAck: verifies the counterparty's TRYOPEN record with the chosen
\* version, then moves the connection from INIT to OPEN.
ConnOpenAck(self, store, root, connectionID, version, proofTry, proofConsensus) ==
    LET previous == store[connectionID]
        expected == ConnectionEnd("TRYOPEN", previous.counterparty.clientID,
                                  Counterparty(connectionID, previous.clientID),
                                  {version})
        errTry == VerifyConnectionState(proofTry, root,
                                        previous.counterparty.connectionID, expected)
        errCons == VerifyClientConsensusState(proofConsensus, root,
                                              previous.counterparty.clientID, self)
    IN  IF previous.state # "INIT"
          THEN KeeperFailure(Wrap("InvalidConnectionState", <<"connection is not INIT">>),
                             previous)
        ELSE IF errTry.kind # "nil" THEN KeeperFailure(errTry, previous)
        ELSE IF errCons.kind # "nil" THEN KeeperFailure(errCons, previous)
        ELSE KeeperSuccess([previous EXCEPT !.state = "OPEN", !.versions = {version}])

\* ConnOpenConfirm: verifies the counterparty's OPEN record, then moves the
\* connection from TRYOPEN to OPEN.
ConnOpenConfirm(store, root, connectionID, proofAck) ==
    LET previous == store[connectionID]
        expected == ConnectionEnd("OPEN", previous.counterparty.clientID,
                                  Counterparty(connectionID, previous.clientID),
                                  previous.versions)
        errAck == VerifyConnectionState(proofAck, root,
                                        previous.counterparty.connectionID, expected)
    IN  IF previous.state # "TRYOPEN"
          THEN KeeperFailure(Wrap("InvalidConnectionState", <<"connection is not TRYOPEN">>),
                             previous)
        ELSE IF errAck.kind # "nil" THEN KeeperFailure(errAck, previous)
        ELSE KeeperSuccess([previous EXCEPT !.state = "OPEN"])

(***************************************************************************)
(* Connection handlers                                                     *)
(***************************************************************************)
\* sdk.NewAttribute(key, value)
NewAttribute(key, value) == [key |-> key, value |-> value]

\* sdk.NewEvent(type, attributes...)
NewEvent(type, attributes) == [type |-> type, attributes |-> attributes]

\* The generic event every handler emits after its handshake event.
MessageEvent ==
    NewEvent("message", <<NewAttribute("module", "AttributeValueCategory")>>)

\* What a handler call comes to: "ok" with the result's events, "error" with
\* the error and a nil result, or "panic"; conn is the record the store holds
\* under the message's connection identifier afterwards.
HandlerError(err, connection) ==
    [result |-> "error", err |-> err, events |-> <<>>, conn |-> connection]

HandlerResult(events, connection) ==
    [result |-> "ok", err |-> NoError, events |-> events, conn |-> connection]

\* A failed type assertion x.(T) without the comma-ok form panics.
HandlerPanic(connection) ==
    [result |-> "panic", err |-> NoError, events |-> <<>>, conn |-> connection]

\* HandleMsgConnectionOpenInit defines the sdk.Handler for MsgConnectionOpenInit
HandleMsgConnectionOpenInit(self, store, root, msg) ==
    LET k == ConnOpenInit(store, msg.ConnectionID, msg.ClientID, msg.Counterparty) IN
    IF k.err.kind # "nil" THEN HandlerError(k.err, k.conn)
    ELSE HandlerResult(
           <<NewEvent("EventTypeConnectionOpenInit",
                <<NewAttribute("AttributeKeyConnectionID", msg.ConnectionID),
                  NewAttribute("AttributeKeyClientID", msg.ClientID),
                  NewAttribute("AttributeKeyCounterpartyClientID",
                               msg.Counterparty.clientID)>>),
             MessageEvent>>,
           k.conn)

\* An OpenTry handler that emits its events before it calls the keeper.
HandleMsgConnectionOpenTryEmitsFirst(self, store, root, msg) ==
    IF ~IsProof(GetCachedValue(msg.ProofInit)) THEN HandlerPanic(store[msg.ConnectionID])
    ELSE IF ~IsProof(GetCachedValue(msg.ProofConsensus))
      THEN HandlerPanic(store[msg.ConnectionID])
    ELSE
    LET proofInit == GetCachedValue(msg.ProofInit)
        proofConsensus == GetCachedValue(msg.ProofConsensus)
        k == ConnOpenTry(self, store, root, msg.ConnectionID, msg.Counterparty,
                         msg.ClientID, msg.CounterpartyVersions,
                         proofInit, proofConsensus)
        events ==
           <<NewEvent("EventTypeConnectionOpenTry",
                <<NewAttribute("AttributeKeyConnectionID", msg.ConnectionID),
                  NewAttribute("AttributeKeyClientID", msg.ClientID),
                  NewAttribute("AttributeKeyCounterpartyClientID",
                               msg.Counterparty.clientID)>>),
             MessageEvent>>
    IN
    IF k.err.kind # "nil"
      THEN [result |-> "error", err |-> k.err, events |-> events, conn |-> k.conn]
      ELSE HandlerResult(events, k.conn)

\* HandleMsgConnectionOpenTry defines the sdk.Handler for MsgConnectionOpenTry
HandleMsgConnectionOpenTry(self, store, root, msg) ==
    IF ~IsProof(GetCachedValue(msg.ProofInit)) THEN HandlerPanic(store[msg.ConnectionID])
    ELSE IF ~IsProof(GetCachedValue(msg.ProofConsensus))
      THEN HandlerPanic(store[msg.ConnectionID])
    ELSE
    LET proofInit == GetCachedValue(msg.ProofInit)
        proofConsensus == GetCachedValue(msg.ProofConsensus)
        k == ConnOpenTry(self, store, root, msg.ConnectionID, msg.Counterparty,
                         msg.ClientID, msg.CounterpartyVersions,
                         proofInit, proofConsensus)
    IN
    IF k.err.kind # "nil" THEN HandlerError(k.err, k.conn)
    ELSE HandlerResult(
           <<NewEvent("EventTypeConnectionOpenTry",
                <<NewAttribute("AttributeKeyConnectionID", msg.ConnectionID),
                  NewAttribute("AttributeKeyClientID", msg.ClientID),
                  NewAttribute("AttributeKeyCounterpartyClientID",
                               msg.Counterparty.clientID)>>),
             MessageEvent>>,
           k.conn)

\* An OpenAck handler that does not look at the keeper's error.
HandleMsgConnectionOpenAckIgnoresError(self, store, root, msg) ==
    IF ~IsProof(GetCachedValue(msg.ProofTry)) THEN HandlerPanic(store[msg.ConnectionID])
    ELSE IF ~IsProof(GetCachedValue(msg.ProofConsensus))
      THEN HandlerPanic(store[msg.ConnectionID])
    ELSE
    LET proofTry == GetCachedValue(msg.ProofTry)
        proofConsensus == GetCachedValue(msg.ProofConsensus)
        k == ConnOpenAck(self, store, root, msg.ConnectionID, msg.Version,
                         proofTry, proofConsensus)
    IN
    HandlerResult(
           <<NewEvent("EventTypeConnectionOpenAck",
                <<NewAttribute("AttributeKeyConnectionID", msg.ConnectionID)>>),
             MessageEvent>>,
           k.conn)

\* HandleMsgConnectionOpenAck defines the sdk.Handler for MsgConnectionOpenAck
HandleMsgConnectionOpenAck(self, store, root, msg) ==
    IF ~IsProof(GetCachedValue(msg.ProofTry)) THEN HandlerPanic(store[msg.ConnectionID])
    ELSE IF ~IsProof(GetCachedValue(msg.ProofConsensus))
      THEN HandlerPanic(store[msg.ConnectionID])
    ELSE
    LET proofTry == GetCachedValue(msg.ProofTry)
        proofConsensus == GetCachedValue(msg.ProofConsensus)
        k == ConnOpenAck(self, store, root, msg.ConnectionID, msg.Version,
                         proofTry, proofConsensus)
    IN
    IF k.err.kind # "nil" THEN HandlerError(k.err, k.conn)
    ELSE HandlerResult(
           <<NewEvent("EventTypeConnectionOpenAck",
                <<NewAttribute("AttributeKeyConnectionID", msg.ConnectionID)>>),
             MessageEvent>>,
           k.conn)

\* HandleMsgConnectionOpenConfirm defines the sdk.Handler for MsgConnectionOpenConfirm
HandleMsgConnectionOpenConfirm(self, store, root, msg) ==
    IF ~IsProof(GetCachedValue(msg.ProofAck)) THEN HandlerPanic(store[msg.ConnectionID])
    ELSE
    LET proofAck == GetCachedValue(msg.ProofAck)
        k == ConnOpenConfirm(store, root, msg.ConnectionID, proofAck)
    IN
    IF k.err.kind # "nil" THEN HandlerError(k.err, k.conn)
    ELSE HandlerResult(
           <<NewEvent("EventTypeConnectionOpenConfirm",
                <<NewAttribute("AttributeKeyConnectionID", msg.ConnectionID)>>),
             MessageEvent>>,
           k.conn)

(***************************************************************************)
(* Merkle maps                                                             *)
(***************************************************************************)
\* The most pairs a map is given.
MaxPairs == 3

\* Keys are strings, values byte slices; a byte is a small number here.
Keys == {<<1>>, <<1, 2>>, <<2>>}

Values == {<<1>>, <<2>>, <<3>>}

\* bytes.Compare(a, b) < 0: a comes before b in lexicographic byte order.
BytesLess(a, b) ==
    \/ /\ Len(a) < Len(b)
       /\ \A i \in 1..Len(a) : a[i] = b[i]
    \/ \E i \in 1..Len(a) :
          /\ i <= Len(b)
          /\ a[i] < b[i]
          /\ \A j \in 1..(i - 1) : a[j] = b[j]

\* kv.Pairs.Less: by key, and by value between pairs of the same key.
PairLess(x, y) ==
    IF BytesLess(x.Key, y.Key) THEN TRUE
    ELSE IF x.Key = y.Key THEN BytesLess(x.Value, y.Value)
    ELSE FALSE

\* Puts pair x into the ordered sequence kvs, before the first pair that does
\* not come before it.
RECURSIVE InsertPair(_, _)
InsertPair(x, kvs) ==
    IF kvs = <<>> THEN <<x>>
    ELSE IF PairLess(kvs[1], x) THEN <<kvs[1]>> \o InsertPair(x, Tail(kvs))
    ELSE <<x>> \o kvs

\* kv.Pairs.Sort: the pairs in the order of PairLess.
RECURSIVE SortPairs(_)
SortPairs(kvs) ==
    IF kvs = <<>> THEN <<>> ELSE InsertPair(kvs[1], SortPairs(Tail(kvs)))

\* tmhash.Sum(bz) of a value: a digest of fixed width, a different one for
\* every value, whose order is not the order of the values.
RECURSIVE BytesCode(_)
BytesCode(bz) ==
    IF bz = <<>> THEN 0 ELSE (4 * BytesCode(Tail(bz)) + bz[1]) % 16

TmhashSum(bz) ==
    LET d == (5 * BytesCode(bz) + 3) % 16 IN <<d \div 4, d % 4>>

\* binary.PutUvarint: base 128, least significant group first, the high bit
\* set on every byte but the last.
RECURSIVE PutUvarint(_)
PutUvarint(n) ==
    IF n < 128 THEN <<n>> ELSE <<(n % 128) + 128>> \o PutUvarint(n \div 128)

\* encodeByteSlice: the length as a uvarint, then the bytes.
encodeByteSlice(bz) == PutUvarint(Len(bz)) \o bz

\* kvPair.bytes: key and value, each length-prefixed.
kvPairBytes(pair) == encodeByteSlice(pair.Key) \o encodeByteSlice(pair.Value)

\* The split point of n leaves: the largest power of two below n.
RECURSIVE SplitPoint(_)
SplitPoint(n) == IF n <= 2 THEN 1 ELSE 2 * SplitPoint((n + 1) \div 2)

\* merkle.SimpleHashFromByteSlices: the hash of a leaf is taken of the leaf
\* with a leaf prefix, the hash of an inner node of its children's hashes
\* with an inner prefix; no items give the empty hash. A hash stands for its
\* input, so that different inputs have different hashes.
RECURSIVE SimpleHashFromByteSlices(_)
SimpleHashFromByteSlices(items) ==
    IF Len(items) = 0 THEN [node |-> "empty"]
    ELSE IF Len(items) = 1 THEN [node |-> "leaf", item |-> items[1]]
    ELSE LET k == SplitPoint(Len(items))
         IN  [node |-> "inner",
              left |-> SimpleHashFromByteSlices(SubSeq(items, 1, k)),
              right |-> SimpleHashFromByteSlices(SubSeq(items, k + 1, Len(items)))]

\* hashKVPairs: the Merkle tree whose leaves are the pairs' bytes.
hashKVPairs(kvs) ==
    SimpleHashFromByteSlices([i \in 1..Len(kvs) |-> kvPairBytes(kvs[i])])

\* kv.Pair{Key: []byte(key), Value: vhash}
KVPair(key, value) == [Key |-> key, Value |-> value]

\* What a call on a map comes to: the map afterwards, what the call returns
\* and whether it sorted the pairs.
MapReturn(sm, out, didSort) == [map |-> sm, out |-> out, didSort |-> didSort]

NoValue == [node |-> "none"]

\* What is kept of the last call on the map: the call, what it returned,
\* whether it sorted, the sorted flag it found, what the latest hash since
\* the last set returned (if there was one), and whether the last set was
\* made on a sorted map.
NoMapCall ==
    [op |-> "new", out |-> NoValue, didSort |-> FALSE, wasSorted |-> FALSE,
     earlier |-> NoValue, resorted |-> FALSE]

\* --- merkleMap ---
newMerkleMap == [type |-> "merkleMap", kvs |-> <<>>, sorted |-> FALSE]

\* A set that leaves the sorted flag as it is.
setKeepsFlag(sm, key, value) ==
    MapReturn([sm EXCEPT !.kvs = Append(@, KVPair(key, TmhashSum(value)))],
              NoValue, FALSE)

\* merkleMap.set
set(sm, key, value) ==
    MapReturn([sm EXCEPT !.sorted = FALSE,
                         !.kvs = Append(@, KVPair(key, TmhashSum(value)))],
              NoValue, FALSE)

\* A sort that sets the flag without sorting.
sortFlagOnly(sm) ==
    IF sm.sorted THEN MapReturn(sm, NoValue, FALSE)
    ELSE MapReturn([sm EXCEPT !.sorted = TRUE], NoValue, TRUE)

\* merkleMap.sort
sort(sm) ==
    IF sm.sorted THEN MapReturn(sm, NoValue, FALSE)
    ELSE MapReturn([sm EXCEPT !.kvs = SortPairs(@), !.sorted = TRUE], NoValue, TRUE)

\* merkleMap.hash
hash(sm) ==
    LET s == sort(sm) IN MapReturn(s.map, hashKVPairs(s.map.kvs), s.didSort)

\* --- simpleMap ---
newSimpleMap == [type |-> "simpleMap", kvs |-> <<>>, sorted |-> FALSE]

\* A Set that leaves the sorted flag as it is.
SetKeepsFlag(sm, key, value) ==
    MapReturn([sm EXCEPT !.kvs = Append(@, KVPair(key, TmhashSum(value)))],
              NoValue, FALSE)

\* simpleMap.Set
Set(sm, key, value) ==
    MapReturn([sm EXCEPT !.sorted = FALSE,
                         !.kvs = Append(@, KVPair(key, TmhashSum(value)))],
              NoValue, FALSE)

\* A Sort that sorts whatever the flag says.
SortAlways(sm) ==
    MapReturn([sm EXCEPT !.kvs = SortPairs(@), !.sorted = TRUE], NoValue, TRUE)

\* simpleMap.Sort
Sort(sm) ==
    IF sm.sorted THEN MapReturn(sm, NoValue, FALSE)
    ELSE MapReturn([sm EXCEPT !.kvs = SortPairs(@), !.sorted = TRUE], NoValue, TRUE)

\* A Hash of the pairs in the order they are in.
HashWithoutSort(sm) == MapReturn(sm, hashKVPairs(sm.kvs), FALSE)

\* simpleMap.Hash
Hash(sm) ==
    LET s == Sort(sm) IN MapReturn(s.map, hashKVPairs(s.map.kvs), s.didSort)

\* simpleMap.KVPairs: a copy of the sorted pairs.
KVPairs(sm) ==
    LET s == Sort(sm) IN MapReturn(s.map, [i \in 1..Len(s.map.kvs) |-> s.map.kvs[i]],
                                   s.didSort)

(***************************************************************************)
(* Initial state                                                           *)
(***************************************************************************)
NoCall == [kind |-> "none"]

NoOut == [kind |-> "none"]

\* The light client is not frozen and no call has been made.
InitLightClient ==
    /\ clientState = TmClientState(0)
    /\ mpc = "idle"
    /\ call = NoCall
    /\ ret = NoCall

\* No chain stores a connection and nothing has been committed.
InitHandshake ==
    /\ conns = [chain \in Chains |-> [id \in ConnIDs(chain) |-> Uninitialized]]
    /\ committed = [chain \in Chains |-> {}]
    /\ hpc = "idle"
    /\ hout = NoOut

\* A new, empty merkleMap on which nothing has been called.
InitMerkle ==
    /\ smap = newMerkleMap
    /\ mlog = <<>>
    /\ mret = NoMapCall

\* No call has been made on a proof.
InitSignature == scall = NoCall

\* The longest signature a proof is given.
MaxSigLen == 2

\* The signatures a proof may hold: none, empty, or up to MaxSigLen bytes.
Signatures ==
    {NilSlice} \cup
    {Slice(bz) : bz \in UNION {[1..n -> {0, 1}] : n \in 0..MaxSigLen}}

\* A new merkleMap and a new simpleMap, nothing called on either.
InitTwin ==
    twin = [merkle |-> newMerkleMap, simple |-> newSimpleMap, op |-> "new",
            outMerkle |-> NoValue, outSimple |-> NoValue]

Init == InitLightClient /\ InitHandshake /\ InitMerkle /\ InitSignature /\ InitTwin

(***************************************************************************)
(* Light client: actions                                                   *)
(***************************************************************************)
\* The caller invokes CheckMisbehaviourAndUpdateState on the client state it
\* holds (or on a client state of another type) with some consensus state,
\* evidence, loaded height and current time. The arguments are passed by
\* value: the caller's own client state is not touched by the call.
CallCheckMisbehaviour ==
    /\ mpc = "idle"
    /\ \E cs \in {clientState, OtherClientState},
          cons \in ConsensusStates,
          ev \in Misbehaviours,
          height \in 0 .. MaxHeight,
          now \in 0 .. MaxTime :
            /\ call' = [clientState |-> cs, consensusState |-> cons,
                        misbehaviour |-> ev, height |-> height,
                        currentTimestamp |-> now]
            /\ ret' = CheckMisbehaviourAndUpdateState(cs, cons, ev, height, now)
    /\ mpc' = "returned"
    /\ UNCHANGED clientState
    /\ UNCHANGED hvars
    /\ UNCHANGED kvars
    /\ UNCHANGED svars
    /\ UNCHANGED tvars

\* The caller stores a successfully returned client state, which the next call
\* is then given; after a failed call it has nothing to store.
StoreClientState ==
    /\ mpc = "returned"
    /\ clientState' = IF ret.err.kind = "nil" THEN ret.state ELSE clientState
    /\ mpc' = "idle"
    /\ call' = NoCall
    /\ ret' = NoCall
    /\ UNCHANGED hvars
    /\ UNCHANGED kvars
    /\ UNCHANGED svars
    /\ UNCHANGED tvars

NextMisbehaviour == CallCheckMisbehaviour \/ StoreClientState

SpecMisbehaviour == Init /\ [][NextMisbehaviour]_vars

(***************************************************************************)
(* Light client: what the checks below speak about                         *)
(***************************************************************************)
Returned == mpc = "returned"

Succeeded == Returned /\ ret.err.kind = "nil"

Failed == Returned /\ ret.err.kind # "nil"

\* The evidence height of call c, as the uint64 the code compares and stores.
EvidenceHeight(c) == Uint64(GetHeight(c.misbehaviour))

\* All three arguments of call c are of the Tendermint kind.
WellTyped(c) ==
    /\ c.clientState.kind = "tendermint"
    /\ c.consensusState.kind = "tendermint"
    /\ c.misbehaviour.kind = "tendermint"

\* Step 1 of the algorithm rejects call c: frozen at or below the evidence height.
FrozenAtOrBelow(c) ==
    /\ c.clientState.FrozenHeight # 0
    /\ c.clientState.FrozenHeight <= EvidenceHeight(c)

\* Step 2 passes: the consensus state was loaded at or before the evidence height.
HeightCheckPasses(c) == c.height <= EvidenceHeight(c)

\* Step 3 passes: the trusted consensus state is younger than the unbonding period.
WithinUnbondingPeriod(c) ==
    c.currentTimestamp - c.consensusState.Timestamp < c.clientState.UnbondingPeriod

\* Step 4 passes: the validator set and both signed headers decode.
DecodeChecksPass(c) ==
    /\ c.consensusState.ValidatorSetDecodes
    /\ c.misbehaviour.Header1.decodes
    /\ c.misbehaviour.Header2.decodes

\* The signers of a commit hold more than trustLevel of the trusted power.
HasTrustedQuorum(c, header) ==
    c.clientState.TrustLevel.Denominator * SumPower(header.signers \cap Validators)
        > c.clientState.TrustLevel.Numerator * SumPower(Validators)

\* Step 5 passes for both commits.
QuorumChecksPass(c) ==
    /\ HasTrustedQuorum(c, c.misbehaviour.Header1)
    /\ HasTrustedQuorum(c, c.misbehaviour.Header2)

(***************************************************************************)
(* C1. Across calls in which each successfully returned client state is    *)
(* fed into the next call, a non-zero FrozenHeight never increases: a      *)
(* successful call on a frozen client returns a FrozenHeight strictly      *)
(* lower than the one it was given, and a failed call returns no updated   *)
(* state, so the caller keeps the client state it had.                     *)
(***************************************************************************)
C1_FrozenHeightNeverIncreases ==
    [][ /\ (IsFrozen(clientState) =>
               clientState'.FrozenHeight <= clientState.FrozenHeight)
        /\ (Succeeded /\ IsFrozen(clientState) /\ call.clientState = clientState =>
               /\ ret.state.FrozenHeight < clientState.FrozenHeight
               /\ clientState' = ret.state)
        /\ (Failed => ret.state = NilClientState /\ clientState' = clientState)
      ]_vars

\* A frozen client was given evidence that the call accepted, lowering the height.
C1_Witness ==
    /\ Succeeded
    /\ call.clientState = clientState
    /\ clientState.FrozenHeight = MaxHeight
    /\ ret.state.FrozenHeight = 1

(***************************************************************************)
(* C2. For a client frozen at height F, evidence at any height E >= F is   *)
(* rejected whatever the validity of the headers, and evidence at a height *)
(* E < F that passes the height, unbonding-period, decode and quorum       *)
(* checks is accepted, returning a client state with FrozenHeight = E.     *)
(***************************************************************************)
C2_RefreezeGuard ==
    Returned /\ call.clientState.kind = "tendermint" /\ IsFrozen(call.clientState) =>
        LET F == call.clientState.FrozenHeight
            E == EvidenceHeight(call)
        IN  /\ (E >= F => Failed /\ ret.state = NilClientState)
            /\ (/\ E < F
                /\ call.consensusState.kind = "tendermint"
                /\ call.misbehaviour.kind = "tendermint"
                /\ HeightCheckPasses(call)
                /\ WithinUnbondingPeriod(call)
                /\ DecodeChecksPass(call)
                /\ QuorumChecksPass(call)
                => Succeeded /\ ret.state.FrozenHeight = E)

\* A client frozen at 3 accepted evidence at 2 and is returned frozen at 2.
C2_Witness ==
    /\ Succeeded
    /\ call.clientState.FrozenHeight = 3
    /\ EvidenceHeight(call) = 2
    /\ ret.state.FrozenHeight = 2

(***************************************************************************)
(* C3. The call succeeds and returns FrozenHeight = H whenever the         *)
(* evidence is at height H, both commits independently pass the            *)
(* trust-level check against the trusted validator set, the loaded height  *)
(* is <= H, the trusted consensus state is younger than the unbonding      *)
(* period and the client is not frozen at a height <= H; and it succeeds   *)
(* only if both commits pass that check.                                   *)
(***************************************************************************)
C3_SuccessIffBothCommitsPass ==
    Returned =>
        /\ (/\ WellTyped(call)
            /\ DecodeChecksPass(call)
            /\ QuorumChecksPass(call)
            /\ HeightCheckPasses(call)
            /\ WithinUnbondingPeriod(call)
            /\ ~FrozenAtOrBelow(call)
            => Succeeded /\ ret.state.FrozenHeight = EvidenceHeight(call))
        /\ (Succeeded =>
               /\ WellTyped(call)
               /\ DecodeChecksPass(call)
               /\ HasTrustedQuorum(call, call.misbehaviour.Header1)
               /\ HasTrustedQuorum(call, call.misbehaviour.Header2))

\* An unfrozen client is frozen at the evidence height by two passing commits,
\* of which one is signed by v2 alone and the other by both validators.
C3_Witness ==
    /\ Succeeded
    /\ ~IsFrozen(call.clientState)
    /\ ret.state.FrozenHeight = 2
    /\ call.misbehaviour.Header1.signers = {"v2"}
    /\ call.misbehaviour.Header2.signers = Validators

(***************************************************************************)
(* C4. Given unbonding period P and currentTime - Timestamp >= P, the call *)
(* fails with the error kind UnbondingPeriodExpired, regardless of whether *)
(* the headers decode and their commits pass; the boundary case            *)
(* currentTime - Timestamp = P is rejected. (Stated for calls that reach   *)
(* the expiry check: well typed, not stopped by the frozen guard or the    *)
(* height check.)                                                          *)
(***************************************************************************)
C4_ExpiredEvidenceErrorKind ==
    /\ Returned
    /\ WellTyped(call)
    /\ ~FrozenAtOrBelow(call)
    /\ HeightCheckPasses(call)
    /\ call.currentTimestamp - call.consensusState.Timestamp
          >= call.clientState.UnbondingPeriod
    => Failed /\ ret.err.kind = "UnbondingPeriodExpired"

(***************************************************************************)
(* C5. Any mismatch between the dynamic type of the client state, the      *)
(* consensus state or the evidence and the Tendermint kind makes the call  *)
(* fail with InvalidClientType, before the already-frozen check: a frozen  *)
(* client with FrozenHeight <= evidenceHeight and a wrong-typed consensus  *)
(* state or evidence yields InvalidClientType, not InvalidEvidence.        *)
(***************************************************************************)
C5_TypeMismatchBeforeFrozenCheck ==
    Returned /\ ~WellTyped(call) =>
        Failed /\ ret.err.kind = "InvalidClientType"

(***************************************************************************)
(* C6. If the height at which the trusted consensus state was loaded is    *)
(* greater than the evidence height, the call rejects with the error kind  *)
(* InvalidHeight and freezes nothing, even when both headers would pass    *)
(* the trust-level check; a loaded height equal to the evidence height is  *)
(* not rejected by this check. (Stated for calls that reach the height     *)
(* check: well typed and not stopped by the frozen guard.)                 *)
(***************************************************************************)
C6_LoadedHeightAboveEvidence ==
    Returned /\ WellTyped(call) /\ ~FrozenAtOrBelow(call) =>
        /\ (call.height > EvidenceHeight(call) =>
               /\ Failed
               /\ ret.err.kind = "InvalidHeight"
               /\ ret.state = NilClientState)
        /\ (/\ call.height = EvidenceHeight(call)
            /\ WithinUnbondingPeriod(call)
            /\ DecodeChecksPass(call)
            /\ QuorumChecksPass(call)
            => Succeeded)

(***************************************************************************)
(* C7. A failing call, whatever step fails, returns no client state and    *)
(* leaves the caller's client state, FrozenHeight included, exactly as it  *)
(* was; FrozenHeight is written only after every check has passed.         *)
(***************************************************************************)
C7_FailureChangesNothing ==
    [][ /\ (Failed' => ret'.state = NilClientState /\ clientState' = clientState)
        /\ (Failed => clientState' = clientState)
        /\ (Returned' /\ ret'.state # NilClientState =>
               /\ WellTyped(call')
               /\ ~FrozenAtOrBelow(call')
               /\ HeightCheckPasses(call')
               /\ WithinUnbondingPeriod(call')
               /\ DecodeChecksPass(call')
               /\ QuorumChecksPass(call')
               /\ ret'.err.kind = "nil"
               /\ ret'.state = [call'.clientState EXCEPT
                                   !.FrozenHeight = EvidenceHeight(call')])
      ]_vars

\* A call on a frozen client failed at the quorum check, the last of the steps.
C7_Witness ==
    /\ Failed
    /\ IsFrozen(clientState)
    /\ call.clientState = clientState
    /\ WellTyped(call)
    /\ ~FrozenAtOrBelow(call)
    /\ HeightCheckPasses(call)
    /\ WithinUnbondingPeriod(call)
    /\ DecodeChecksPass(call)
    /\ ~QuorumChecksPass(call)
    /\ ret.state = NilClientState

(***************************************************************************)
(* Connection handshake: actions                                           *)
(***************************************************************************)
\* The root the light client on the other chain trusts for `chain`: what
\* chain has committed, and the consensus state it keeps of the other chain.
Root(chain) ==
    committed[chain] \cup {ConsensusEntry(ClientOn(chain), Other(chain))}

\* The envelopes a relayer can put in a proof field that is to show `expected`
\* under `root`: no proof at all, a signature proof, a Merkle proof of any
\* committed entry, and a Merkle proof made up for the expected entry itself.
ProofEnvelopes(root, expected) ==
    {Envelope(NotAProof), Envelope(SignatureProof(Slice(<<1>>)))}
      \cup {Envelope(MerkleProof(e)) : e \in root \cup {expected}}

\* The envelopes for a consensus proof: no proof, a signature proof, a Merkle
\* proof of the expected consensus state, and one of another chain's.
ConsensusEnvelopes(clientID, self) ==
    {Envelope(NotAProof), Envelope(SignatureProof(Slice(<<1>>))),
     Envelope(MerkleProof(ConsensusEntry(clientID, self))),
     Envelope(MerkleProof(ConsensusEntry(clientID, Other(self))))}

\* The handler's writes go to the store of `chain`; its outcome is kept,
\* with the record the store held before, until the block is committed.
Deliver(chain, msg, out) ==
    /\ hpc = "idle"
    /\ conns' = [conns EXCEPT ![chain][msg.ConnectionID] = out.conn]
    /\ hout' = [chain |-> chain, msg |-> msg, result |-> out.result,
                err |-> out.err, events |-> out.events,
                previous |-> conns[chain][msg.ConnectionID]]
    /\ hpc' = "handled"
    /\ UNCHANGED committed
    /\ UNCHANGED mvars
    /\ UNCHANGED kvars
    /\ UNCHANGED svars
    /\ UNCHANGED tvars

OpenInit ==
    \E chain \in Chains : \E id \in ConnIDs(chain), cpID \in ConnIDs(Other(chain)) :
        LET msg == [type |-> "MsgConnectionOpenInit",
                    ConnectionID |-> id,
                    ClientID |-> ClientOn(chain),
                    Counterparty |-> Counterparty(cpID, ClientOn(Other(chain)))]
        IN  Deliver(chain, msg,
                    HandleMsgConnectionOpenInit(chain, conns[chain],
                                                Root(Other(chain)), msg))

OpenTry ==
    \E chain \in Chains : \E id \in ConnIDs(chain), cpID \in ConnIDs(Other(chain)),
                           versions \in (SUBSET SupportedVersions) \ {{}} :
        LET counterparty == Counterparty(cpID, ClientOn(Other(chain)))
            expected == ConnectionEnd("INIT", counterparty.clientID,
                                      Counterparty(id, ClientOn(chain)), versions)
        IN  \E proofInit \in ProofEnvelopes(Root(Other(chain)),
                                            ConnectionEntry(cpID, expected)),
               proofConsensus \in ConsensusEnvelopes(counterparty.clientID, chain) :
                LET msg == [type |-> "MsgConnectionOpenTry",
                            ConnectionID |-> id,
                            Counterparty |-> counterparty,
                            ClientID |-> ClientOn(chain),
                            CounterpartyVersions |-> versions,
                            ProofInit |-> proofInit,
                            ProofConsensus |-> proofConsensus]
                IN  Deliver(chain, msg,
                            HandleMsgConnectionOpenTry(chain, conns[chain],
                                                       Root(Other(chain)), msg))

OpenAck ==
    \E chain \in Chains : \E id \in ConnIDs(chain), version \in SupportedVersions :
        LET previous == conns[chain][id]
            expected == ConnectionEnd("TRYOPEN", previous.counterparty.clientID,
                                      Counterparty(id, previous.clientID), {version})
        IN  \E proofTry \in ProofEnvelopes(Root(Other(chain)),
                               ConnectionEntry(previous.counterparty.connectionID,
                                               expected)),
               proofConsensus \in ConsensusEnvelopes(ClientOn(Other(chain)), chain) :
                LET msg == [type |-> "MsgConnectionOpenAck",
                            ConnectionID |-> id,
                            Version |-> version,
                            ProofTry |-> proofTry,
                            ProofConsensus |-> proofConsensus]
                IN  Deliver(chain, msg,
                            HandleMsgConnectionOpenAck(chain, conns[chain],
                                                       Root(Other(chain)), msg))

OpenConfirm ==
    \E chain \in Chains : \E id \in ConnIDs(chain) :
        LET previous == conns[chain][id]
            expected == ConnectionEnd("OPEN", previous.counterparty.clientID,
                                      Counterparty(id, previous.clientID),
                                      previous.versions)
        IN  \E proofAck \in ProofEnvelopes(Root(Other(chain)),
                               ConnectionEntry(previous.counterparty.connectionID,
                                               expected)) :
                LET msg == [type |-> "MsgConnectionOpenConfirm",
                            ConnectionID |-> id,
                            ProofAck |-> proofAck]
                IN  Deliver(chain, msg,
                            HandleMsgConnectionOpenConfirm(chain, conns[chain],
                                                           Root(Other(chain)), msg))

\* The block with the handled message is committed: the records the chains
\* store become part of what proofs can show.
CommitBlock ==
    /\ hpc = "handled"
    /\ committed' = [chain \in Chains |->
           committed[chain] \cup
             {ConnectionEntry(id, conns[chain][id]) :
                 id \in {i \in ConnIDs(chain) : conns[chain][i].state # "UNINITIALIZED"}}]
    /\ hpc' = "idle"
    /\ hout' = NoOut
    /\ UNCHANGED conns
    /\ UNCHANGED mvars
    /\ UNCHANGED kvars
    /\ UNCHANGED svars
    /\ UNCHANGED tvars

NextHandshake == OpenInit \/ OpenTry \/ OpenAck \/ OpenConfirm \/ CommitBlock

SpecHandshake == Init /\ [][NextHandshake]_vars

(***************************************************************************)
(* Connection handshake: what the checks below speak about                 *)
(***************************************************************************)
\* This step is a handler call: the message and its outcome are in hout'.
HandlerStep == hpc = "idle" /\ hpc' = "handled"

\* Every proof envelope of message msg holds a Proof.
ProofsExtracted(msg) ==
    CASE msg.type = "MsgConnectionOpenInit" -> TRUE
      [] msg.type = "MsgConnectionOpenTry" ->
           IsProof(msg.ProofInit.cached) /\ IsProof(msg.ProofConsensus.cached)
      [] msg.type = "MsgConnectionOpenAck" ->
           IsProof(msg.ProofTry.cached) /\ IsProof(msg.ProofConsensus.cached)
      [] msg.type = "MsgConnectionOpenConfirm" -> IsProof(msg.ProofAck.cached)

\* The handler call of this step failed with InvalidConnectionState and the
\* stores are as they were.
RejectedForState ==
    /\ hout'.result = "error"
    /\ hout'.err.kind = "InvalidConnectionState"
    /\ conns' = conns

\* `chain` has at some time committed, under connection identifier id, a record
\* in the given state.
WasCommittedIn(chain, id, state) ==
    \E e \in committed[chain] :
        e.path = <<"connections", id>> /\ e.value.state = state

\* The envelope holds a Merkle proof of an entry that `chain` has committed.
IsValidProofOf(envelope, chain, id, state) ==
    /\ envelope.cached.variant = "merkle"
    /\ envelope.cached.entry \in committed[chain]
    /\ envelope.cached.entry.path = <<"connections", id>>
    /\ envelope.cached.entry.value.state = state

(***************************************************************************)
(* C8. For every connection identifier on a chain, over any sequence of    *)
(* OpenInit, OpenTry, OpenAck and OpenConfirm messages, successful or      *)
(* failing, the connection state never regresses in the order              *)
(* UNINITIALIZED < INIT < TRYOPEN < OPEN; once OPEN it stays OPEN.         *)
(***************************************************************************)
C8_StateNeverRegresses ==
    [][ \A chain \in Chains : \A id \in ConnIDs(chain) :
          /\ Rank(conns'[chain][id].state) >= Rank(conns[chain][id].state)
          /\ (conns[chain][id].state = "OPEN" => conns'[chain][id].state = "OPEN")
      ]_vars

\* An OpenTry was handled for a connection that was OPEN, and it still is.
C8_Witness ==
    /\ hpc = "handled"
    /\ hout.msg.type = "MsgConnectionOpenTry"
    /\ ProofsExtracted(hout.msg)
    /\ hout.previous.state = "OPEN"
    /\ conns[hout.chain][hout.msg.ConnectionID].state = "OPEN"

(***************************************************************************)
(* C9. Each handshake step is accepted only from its required prior local  *)
(* state: OpenInit fails if the connection exists in a state other than    *)
(* UNINITIALIZED; OpenAck moves the connection to OPEN only from INIT;     *)
(* OpenConfirm moves it to OPEN only from TRYOPEN; a step attempted from   *)
(* any other prior state fails with InvalidConnectionState and changes     *)
(* nothing. (The error kind is stated for messages whose proofs the        *)
(* handler could extract; the stores are unchanged in every case.)         *)
(***************************************************************************)
C9_StepsOnlyFromPriorState ==
    [][ HandlerStep =>
          LET msg == hout'.msg
              before == conns[hout'.chain][msg.ConnectionID]
              after == conns'[hout'.chain][msg.ConnectionID]
              required ==
                CASE msg.type = "MsgConnectionOpenInit" -> {"UNINITIALIZED"}
                  [] msg.type = "MsgConnectionOpenTry" -> {"UNINITIALIZED", "INIT"}
                  [] msg.type = "MsgConnectionOpenAck" -> {"INIT"}
                  [] msg.type = "MsgConnectionOpenConfirm" -> {"TRYOPEN"}
          IN  /\ hout'.previous = before
              /\ (before.state \notin required => conns' = conns)
              /\ (before.state \notin required /\ ProofsExtracted(msg)
                    => RejectedForState)
              /\ (hout'.result = "ok" => before.state \in required)
              /\ (after.state = "OPEN" /\ before.state # "OPEN" =>
                    \/ msg.type = "MsgConnectionOpenAck" /\ before.state = "INIT"
                    \/ msg.type = "MsgConnectionOpenConfirm" /\ before.state = "TRYOPEN")
      ]_vars

\* An OpenAck for a connection in TRYOPEN was rejected for its state.
C9_Witness ==
    /\ hpc = "handled"
    /\ hout.msg.type = "MsgConnectionOpenAck"
    /\ ProofsExtracted(hout.msg)
    /\ hout.previous.state = "TRYOPEN"
    /\ hout.err.kind = "InvalidConnectionState"
    /\ conns[hout.chain][hout.msg.ConnectionID] = hout.previous

(***************************************************************************)
(* C10. OpenInit on A, OpenTry on B with a valid proof of A's INIT record, *)
(* OpenAck on A with a valid proof of B's TRYOPEN record and OpenConfirm   *)
(* on B with a valid proof of A's OPEN record end with the connection OPEN *)
(* on both chains with the same agreed version; and neither side reaches   *)
(* OPEN unless the counterparty's record was TRYOPEN (for the side that    *)
(* acknowledges) or OPEN (for the side that confirms) at the time of the   *)
(* proof.                                                                  *)
(***************************************************************************)
C10_HandshakeEndsOpenOnBoth ==
    [][ /\ (HandlerStep =>
              LET msg == hout'.msg
                  chain == hout'.chain
                  before == conns[chain][msg.ConnectionID]
                  after == conns'[chain][msg.ConnectionID]
                  moved == after.state = "OPEN" /\ before.state # "OPEN"
              IN  /\ (moved /\ msg.type = "MsgConnectionOpenAck" =>
                        WasCommittedIn(Other(chain),
                                       before.counterparty.connectionID, "TRYOPEN"))
                  /\ (moved /\ msg.type = "MsgConnectionOpenConfirm" =>
                        WasCommittedIn(Other(chain),
                                       before.counterparty.connectionID, "OPEN"))
                  /\ (/\ msg.type = "MsgConnectionOpenAck"
                      /\ before.state = "INIT"
                      /\ IsValidProofOf(msg.ProofTry, Other(chain),
                                        before.counterparty.connectionID, "TRYOPEN")
                      /\ msg.ProofTry.cached.entry.value.versions = {msg.Version}
                      /\ msg.ProofConsensus.cached
                           = MerkleProof(ConsensusEntry(ClientOn(Other(chain)), chain))
                      => after.state = "OPEN" /\ after.versions = {msg.Version})
                  /\ (/\ msg.type = "MsgConnectionOpenConfirm"
                      /\ before.state = "TRYOPEN"
                      /\ IsValidProofOf(msg.ProofAck, Other(chain),
                                        before.counterparty.connectionID, "OPEN")
                      /\ msg.ProofAck.cached.entry.value.versions = before.versions
                      => after.state = "OPEN"))
        /\ (\A a \in ConnIDs("A"), b \in ConnIDs("B") :
              /\ conns'["A"][a].state = "OPEN"
              /\ conns'["B"][b].state = "OPEN"
              => conns'["A"][a].versions = conns'["B"][b].versions)
      ]_vars

(***************************************************************************)
(* Connection handshake: the keeper call behind a handled message          *)
(***************************************************************************)
\* What the keeper returns when called with the proofs of message msg on
\* `chain`, whose store is `store`.
KeeperCall(chain, store, msg) ==
    CASE msg.type = "MsgConnectionOpenInit" ->
           ConnOpenInit(store, msg.ConnectionID, msg.ClientID, msg.Counterparty)
      [] msg.type = "MsgConnectionOpenTry" ->
           ConnOpenTry(chain, store, Root(Other(chain)), msg.ConnectionID,
                       msg.Counterparty, msg.ClientID, msg.CounterpartyVersions,
                       msg.ProofInit.cached, msg.ProofConsensus.cached)
      [] msg.type = "MsgConnectionOpenAck" ->
           ConnOpenAck(chain, store, Root(Other(chain)), msg.ConnectionID,
                       msg.Version, msg.ProofTry.cached, msg.ProofConsensus.cached)
      [] msg.type = "MsgConnectionOpenConfirm" ->
           ConnOpenConfirm(store, Root(Other(chain)), msg.ConnectionID,
                           msg.ProofAck.cached)

\* The events of a result that are not the generic message event.
HandshakeEvents(events) ==
    {i \in DOMAIN events : events[i].type # "message"}

\* The keys of the attributes of an event.
AttributeKeys(event) ==
    {event.attributes[i].key : i \in DOMAIN event.attributes}

(***************************************************************************)
(* C11. A handshake step whose keeper call fails (proof verification       *)
(* failure, prior-state mismatch or counterparty record mismatch) returns  *)
(* that error with no result, leaves the local connection record unchanged *)
(* and emits no handshake event.                                           *)
(***************************************************************************)
C11_KeeperFailureChangesNothing ==
    [][ HandlerStep /\ ProofsExtracted(hout'.msg) =>
          LET msg == hout'.msg
              k == KeeperCall(hout'.chain, conns[hout'.chain], msg)
          IN  k.err.kind # "nil" =>
                /\ hout'.result = "error"
                /\ hout'.err = k.err
                /\ hout'.events = <<>>
                /\ conns' = conns
      ]_vars

\* An OpenTry for a connection in INIT was refused because its Merkle proof
\* does not verify; the record is as it was and nothing was emitted.
C11_Witness ==
    /\ hpc = "handled"
    /\ hout.msg.type = "MsgConnectionOpenTry"
    /\ hout.msg.ProofInit.cached.variant = "merkle"
    /\ hout.previous.state = "INIT"
    /\ hout.result = "error"
    /\ hout.err.kind = "InvalidProof"
    /\ hout.events = <<>>
    /\ conns[hout.chain][hout.msg.ConnectionID] = hout.previous

(***************************************************************************)
(* C12. Every successful handshake step (OpenInit, OpenTry, OpenAck and    *)
(* OpenConfirm alike) emits exactly one structured handshake event         *)
(* carrying the connection identifier, the client identifier and the       *)
(* counterparty client identifier, plus exactly one generic message        *)
(* marker event.                                                           *)
(***************************************************************************)
C12_EventsCarryAllIdentifiers ==
    hpc = "handled" /\ hout.result = "ok" =>
        /\ Len(hout.events) = 2
        /\ Cardinality(HandshakeEvents(hout.events)) = 1
        /\ \A i \in HandshakeEvents(hout.events) :
              AttributeKeys(hout.events[i]) =
                 {"AttributeKeyConnectionID", "AttributeKeyClientID",
                  "AttributeKeyCounterpartyClientID"}

(***************************************************************************)
(* C13. In OpenTry, OpenAck and OpenConfirm, extracting a proof from its   *)
(* envelope either produces a concrete Proof value or makes the step fail  *)
(* with the InvalidProof error (returned as an error value, not a crash)   *)
(* when the envelope holds no recognised proof; extraction of every proof  *)
(* of the message happens before the keeper's verification is invoked.     *)
(***************************************************************************)
C13_ExtractionFailsWithInvalidProof ==
    hpc = "handled" =>
        /\ (~ProofsExtracted(hout.msg) =>
              /\ hout.result = "error"
              /\ hout.err.kind = "InvalidProof")
        /\ (~ProofsExtracted(hout.msg) =>
              conns[hout.chain][hout.msg.ConnectionID] = hout.previous)

(***************************************************************************)
(* Merkle maps: actions                                                    *)
(***************************************************************************)
\* The map is replaced by a new, empty one of either type.
NewMap ==
    /\ \E m \in {newMerkleMap, newSimpleMap} : smap' = m
    /\ mlog' = <<>>
    /\ mret' = NoMapCall
    /\ UNCHANGED <<mvars, hvars, svars, tvars>>

\* The map takes the place of the one the call leaves and the call's return
\* is kept.
MapCall(op, r) ==
    /\ smap' = r.map
    /\ mret' = [op |-> op, out |-> r.out, didSort |-> r.didSort,
                wasSorted |-> smap.sorted,
                earlier |-> IF op = "set" THEN NoValue
                            ELSE IF mret.op = "hash" THEN mret.out
                            ELSE mret.earlier,
                resorted |-> IF op = "set" THEN smap.sorted ELSE mret.resorted]
    /\ UNCHANGED <<mvars, hvars, svars, tvars>>

\* set / Set with some key and value.
MapSet ==
    /\ Len(smap.kvs) < MaxPairs
    /\ \E key \in Keys, value \in Values :
          /\ MapCall("set", IF smap.type = "merkleMap" THEN set(smap, key, value)
                                                      ELSE Set(smap, key, value))
          /\ mlog' = Append(mlog, [key |-> key, value |-> value])

\* hash / Hash
MapHash ==
    /\ MapCall("hash", IF smap.type = "merkleMap" THEN hash(smap) ELSE Hash(smap))
    /\ UNCHANGED mlog

\* sort / Sort
MapSort ==
    /\ MapCall("sort", IF smap.type = "merkleMap" THEN sort(smap) ELSE Sort(smap))
    /\ UNCHANGED mlog

\* KVPairs, which only a simpleMap has.
MapKVPairs ==
    /\ smap.type = "simpleMap"
    /\ MapCall("kvpairs", KVPairs(smap))
    /\ UNCHANGED mlog

NextMerkle == NewMap \/ MapSet \/ MapHash \/ MapSort \/ MapKVPairs

SpecMerkle == Init /\ [][NextMerkle]_vars

(***************************************************************************)
(* Merkle maps: what the checks below speak about                          *)
(***************************************************************************)
\* No two set calls of the log have the same key.
UniqueKeys(log) ==
    \A i, j \in DOMAIN log : log[i].key = log[j].key => i = j

\* The log in another order.
Reordered(log, p) == [i \in DOMAIN log |-> log[p[i]]]

\* The map of the given type that a new map becomes by the set calls of log
\* alone.
RECURSIVE FreshMap(_, _)
FreshMap(type, log) ==
    IF log = <<>> THEN (IF type = "merkleMap" THEN newMerkleMap ELSE newSimpleMap)
    ELSE LET before == FreshMap(type, SubSeq(log, 1, Len(log) - 1))
             last == log[Len(log)]
         IN  IF type = "merkleMap" THEN set(before, last.key, last.value).map
             ELSE Set(before, last.key, last.value).map

\* What hash returns on that map.
FreshHash(type, log) ==
    IF type = "merkleMap" THEN hash(FreshMap(type, log)).out
    ELSE Hash(FreshMap(type, log)).out

\* How often pair x occurs in kvs.
Count(kvs, x) == Cardinality({i \in DOMAIN kvs : kvs[i] = x})

\* The pairs of kvs are those of the set calls of log, each as often.
SamePairs(kvs, log) ==
    /\ Len(kvs) = Len(log)
    /\ \A i \in DOMAIN log :
          LET x == KVPair(log[i].key, TmhashSum(log[i].value))
          IN  Count(kvs, x) =
                 Cardinality({j \in DOMAIN log : /\ log[j].key = log[i].key
                                                 /\ log[j].value = log[i].value})

\* The keys of kvs are in non-decreasing lexicographic order.
KeysInOrder(kvs) ==
    \A i \in 1..(Len(kvs) - 1) : ~BytesLess(kvs[i + 1].Key, kvs[i].Key)

(***************************************************************************)
(* C14. For any set of (key, value) pairs with unique keys, two Merkle     *)
(* maps that receive the same pairs through Set in different orders return *)
(* identical bytes from Hash.                                              *)
(***************************************************************************)
C14_HashIndependentOfOrder ==
    mret.op = "hash" /\ UniqueKeys(mlog) =>
        \A p \in Permutations(DOMAIN mlog) :
            FreshHash(smap.type, Reordered(mlog, p)) = mret.out

\* Hash returned on a merkleMap that was given keys 2, 1, (1,2) in this
\* order, which is not the sorted one.
C14_Witness ==
    /\ mret.op = "hash"
    /\ smap.type = "merkleMap"
    /\ Len(mlog) = 3
    /\ mlog[1].key = <<2>> /\ mlog[2].key = <<1>> /\ mlog[3].key = <<1, 2>>
    /\ mlog[1].value = <<2>> /\ mlog[2].value = <<1>> /\ mlog[3].value = <<3>>

(***************************************************************************)
(* C15. Calling Hash repeatedly on a Merkle map with no intervening Set    *)
(* returns identical bytes every time, and the second and later calls do   *)
(* not sort again: the sort is performed only when the dirty (unsorted)    *)
(* flag is set, and Hash clears it.                                        *)
(***************************************************************************)
C15_HashIdempotent ==
    mret.op = "hash" =>
        /\ smap.sorted
        /\ (mret.didSort <=> ~mret.wasSorted)
        /\ (mret.earlier # NoValue =>
              /\ mret.out = mret.earlier
              /\ ~mret.didSort)

\* Hash returned on a simpleMap of three pairs for the second time since the
\* last Set, with the same bytes and without sorting.
C15_Witness ==
    /\ mret.op = "hash"
    /\ smap.type = "simpleMap"
    /\ Len(mlog) = 3
    /\ mlog[1].key = <<2>> /\ mlog[2].key = <<1>>
    /\ mret.earlier # NoValue
    /\ mret.out = mret.earlier
    /\ ~mret.didSort

(***************************************************************************)
(* C18. For unique keys, the value Hash returns after any interleaving of  *)
(* Set and Hash (and Sort/KVPairs) calls depends only on the set of pairs  *)
(* inserted so far: it equals the Hash of a fresh Merkle map that received *)
(* the same pairs with no intermediate Hash calls. Every Set marks the map *)
(* dirty, so a Hash after a Set always reflects the new pair even if the   *)
(* map had been sorted before.                                             *)
(***************************************************************************)
C18_HashDependsOnPairsOnly ==
    /\ (mret.op = "hash" /\ UniqueKeys(mlog) =>
          /\ mret.out = FreshHash(smap.type, mlog)
          /\ mret.out = hashKVPairs(SortPairs(
                 [i \in DOMAIN mlog |->
                     KVPair(mlog[i].key, TmhashSum(mlog[i].value))])))
    /\ (mret.op = "set" => ~smap.sorted)

\* Hash returned for the second time on a merkleMap that was sorted (by a
\* Hash of its first two pairs) before its last pair, the smallest key, was
\* set.
C18_Witness ==
    /\ mret.op = "hash"
    /\ smap.type = "merkleMap"
    /\ Len(mlog) = 3
    /\ mlog[1].key = <<2>> /\ mlog[2].key = <<1, 2>> /\ mlog[3].key = <<1>>
    /\ mret.resorted
    /\ ~mret.wasSorted
    /\ mret.didSort
    /\ smap.kvs[1].Key = <<1>>

(***************************************************************************)
(* C19. In every reachable state of a Merkle map (after any sequence of    *)
(* Set, Hash, Sort and KVPairs), if the sorted flag is true then the       *)
(* stored pairs are in non-decreasing lexicographic order of key bytes;    *)
(* and Hash, Sort and KVPairs never add, drop or alter a pair (the         *)
(* multiset of pairs equals the multiset of Set calls, duplicates kept,    *)
(* one pair per Set).                                                      *)
(***************************************************************************)
C19_SortedFlagMeansOrdered ==
    /\ (smap.sorted => KeysInOrder(smap.kvs))
    /\ SamePairs(smap.kvs, mlog)
    /\ (mret.op = "kvpairs" => mret.out = smap.kvs)

\* KVPairs returned on a simpleMap holding the same key twice, with
\* different values, and a smaller key set last.
C19_Witness ==
    /\ mret.op = "kvpairs"
    /\ smap.sorted
    /\ Len(mlog) = 3
    /\ mlog[1].key = <<2>> /\ mlog[2].key = <<2>> /\ mlog[3].key = <<1>>
    /\ mlog[1].value # mlog[2].value
    /\ smap.kvs[1].Key = <<1>>

(***************************************************************************)
(* Signature proofs: actions                                               *)
(***************************************************************************)
\* The entries a root may hold and a proof may be asked to show.
SampleEntries ==
    {ConnectionEntry("c1", ConnectionEnd("INIT", "clientB",
                                         Counterparty("c2", "clientA"), {1})),
     ConsensusEntry("clientA", "B")}

SampleRoots == SUBSET SampleEntries

\* The proofs a caller may hold: a signature proof of any signature, or a
\* Merkle proof of an entry.
SampleProofs ==
    {SignatureProof(sig) : sig \in Signatures} \cup
    {MerkleProof(e) : e \in SampleEntries}

\* The call, its arguments and its result are kept.
ProofCall(op, proof, root, entry, err) ==
    /\ scall' = [kind |-> op, proof |-> proof, root |-> root, entry |-> entry,
                 err |-> err]
    /\ UNCHANGED <<mvars, hvars, kvars, tvars>>

\* proof.IsEmpty() and proof.ValidateBasic() on a signature proof.
CallValidateBasic ==
    \E sig \in Signatures :
        LET proof == SignatureProof(sig) IN
        /\ scall' = [kind |-> "ValidateBasic", proof |-> proof,
                     empty |-> IsEmpty(proof), err |-> ValidateBasic(proof)]
        /\ UNCHANGED <<mvars, hvars, kvars, tvars>>

\* proof.VerifyMembership(root, path, value) on a signature proof.
CallVerifyMembership ==
    \E sig \in Signatures, root \in SampleRoots, e \in SampleEntries :
        ProofCall("VerifyMembership", SignatureProof(sig), root, e,
                  SignatureVerifyMembership(SignatureProof(sig), root, e.path, e.value))

\* proof.VerifyNonMembership(root, path) on a signature proof.
CallVerifyNonMembership ==
    \E sig \in Signatures, root \in SampleRoots, e \in SampleEntries :
        ProofCall("VerifyNonMembership", SignatureProof(sig), root, e,
                  SignatureVerifyNonMembership(SignatureProof(sig), root, e.path))

\* The proof check that gates a handshake step, on a proof of either variant.
CallVerifyConnectionState ==
    \E proof \in SampleProofs, root \in SampleRoots, e \in SampleEntries :
        ProofCall("VerifyConnectionState", proof, root, e,
                  VerifyMembership(proof, root, e.path, e.value))

NextSignature ==
    \/ CallValidateBasic
    \/ CallVerifyMembership
    \/ CallVerifyNonMembership
    \/ CallVerifyConnectionState

SpecSignature == Init /\ [][NextSignature]_vars

(***************************************************************************)
(* C16. SignatureProof.ValidateBasic fails with InvalidProof exactly when  *)
(* the signature payload is empty (zero length, including absent), and     *)
(* succeeds for every non-empty payload; its outcome always agrees with    *)
(* IsEmpty.                                                                *)
(***************************************************************************)
C16_ValidateBasicIffEmpty ==
    scall.kind = "ValidateBasic" =>
        LET sig == scall.proof.Signature
            empty == sig.isNil \/ sig.bytes = <<>>
        IN  /\ (empty => scall.err.kind = "InvalidProof")
            /\ (~empty => scall.err = NoError)
            /\ (scall.empty <=> scall.err.kind # "nil")

\* ValidateBasic refused a proof whose signature is an empty slice, not nil.
C16_Witness ==
    /\ scall.kind = "ValidateBasic"
    /\ scall.proof.Signature = Slice(<<>>)
    /\ scall.empty
    /\ scall.err.kind = "InvalidProof"

(***************************************************************************)
(* C17. SignatureProof.VerifyMembership and VerifyNonMembership succeed    *)
(* for every root, path and expected value, including for a proof whose    *)
(* signature is empty (one that ValidateBasic rejects); consequently a     *)
(* handshake step gated only by a signature-variant proof is never stopped *)
(* by the proof object itself.                                             *)
(***************************************************************************)
C17_SignatureProofAlwaysVerifies ==
    /\ scall.kind \in {"VerifyMembership", "VerifyNonMembership",
                      "VerifyConnectionState"}
    /\ scall.proof.variant = "signature"
    => scall.err = NoError

\* The gate of a handshake step passed on an empty signature proof, which
\* ValidateBasic rejects, for an entry the root does not hold.
C17_Witness ==
    /\ scall.kind = "VerifyConnectionState"
    /\ scall.proof = SignatureProof(Slice(<<>>))
    /\ ValidateBasic(scall.proof).kind = "InvalidProof"
    /\ scall.entry \notin scall.root
    /\ scall.err = NoError

(***************************************************************************)
(* C20. Every client state returned by a successful                        *)
(* CheckMisbehaviourAndUpdateState is frozen (FrozenHeight != 0), so a     *)
(* client that has been frozen stays frozen after any further sequence of  *)
(* misbehaviour checks; in particular evidence whose height is 0 cannot    *)
(* turn a client frozen at height F > 0 back into an unfrozen one.         *)
(***************************************************************************)
C20_SuccessLeavesClientFrozen ==
    [][ /\ (Succeeded' => IsFrozen(ret'.state))
        /\ (IsFrozen(clientState) => IsFrozen(clientState'))
      ]_vars

(***************************************************************************)
(* merkleMap and simpleMap side by side: actions                           *)
(***************************************************************************)
\* The same call is made on both maps: rm is what it comes to on the
\* merkleMap, rs on the simpleMap.
TwinCall(op, rm, rs) ==
    /\ twin' = [merkle |-> rm.map, simple |-> rs.map, op |-> op,
                outMerkle |-> rm.out, outSimple |-> rs.out]
    /\ UNCHANGED <<mvars, hvars, kvars, svars>>

\* set and Set with the same key and value.
TwinSet ==
    /\ Len(twin.merkle.kvs) < MaxPairs
    /\ Len(twin.simple.kvs) < MaxPairs
    /\ \E key \in Keys, value \in Values :
          TwinCall("set", set(twin.merkle, key, value), Set(twin.simple, key, value))

\* hash and Hash.
TwinHash == TwinCall("hash", hash(twin.merkle), Hash(twin.simple))

NextTwin == TwinSet \/ TwinHash

SpecTwin == Init /\ [][NextTwin]_vars

(***************************************************************************)
(* C21. merkleMap and simpleMap are observationally equivalent: driven by  *)
(* the same sequence of set/Set and hash/Hash calls, they hold the same    *)
(* pairs and the same sorted flag after every step and return identical    *)
(* root bytes from every hash/Hash call.                                   *)
(***************************************************************************)
C21_MerkleMapEqualsSimpleMap ==
    /\ twin.merkle.kvs = twin.simple.kvs
    /\ twin.merkle.sorted = twin.simple.sorted
    /\ (twin.op = "hash" => twin.outMerkle = twin.outSimple)

\* Both maps were given three pairs, the largest key first, and the hash
\* calls that followed sorted both and returned the same root of three
\* leaves.
C21_Witness ==
    /\ twin.op = "hash"
    /\ Len(twin.merkle.kvs) = 3
    /\ twin.merkle.kvs[1].Key = <<1>> /\ twin.merkle.kvs[3].Key = <<2>>
    /\ twin.simple.kvs[2].Key = <<1, 2>>
    /\ twin.merkle.sorted /\ twin.simple.sorted
    /\ twin.outMerkle.node = "inner"
    /\ twin.outMerkle = twin.outSimple

====
